---- MODULE Spec2Model ----
(***************************************************************************)
(* KeplerClient (src/src/kepler_client/client.py): the Prometheus client   *)
(* of the cost estimator.  The model covers the container-scope and the    *)
(* node-scope correlation passes, the health probe and the duration        *)
(* parser.  Each operation has a specification of its own over the shared  *)
(* client state.                                                           *)
(***************************************************************************)
EXTENDS Integers, Sequences, FiniteSets, TLC

VARIABLES
    session,         \* self.session: "None" or "open"
    created,         \* number of aiohttp.ClientSession objects constructed
    closed,          \* number of completed session.close() calls
    pc,              \* position of the running coroutine
    qi,              \* index of the query the pass is at (position in the queries dict)
    si,              \* index of the series of the current result the loop is at
    responses,       \* what the backend answered to each query issued so far
    limit,           \* get_all_container_metrics: the limit argument
    containers_map,  \* get_all_container_metrics: the insertion-ordered dict
    nodes,           \* get_node_power_metrics: the nodes list
    node_map,        \* _enrich_node_metrics: node_name -> index of the object in nodes
    ret,             \* how the last operation ended: returned value or raised exception
    time_range,      \* _parse_time_range: the argument
    prometheus_healthy, \* health_check: the local set from the liveness response
    live,            \* health_check: what the liveness request did in this call
    data,            \* health_check: what the data-presence query did in this call
    arg_namespace,   \* get_container_power_metrics: the namespace argument
    arg_workload,    \* get_container_power_metrics: the workload argument
    containers,      \* get_container_power_metrics: the containers list
    caller,          \* who awaits get_container_power_metrics: "direct" or "get_current_cost"
    cost_data,       \* get_current_cost: what calculate_total_cost returned
    passes,          \* concurrent passes: each task's operation, position, answers and outcome
    frames,          \* concurrent passes: each call's local variables
    coros,           \* concurrent session use: each coroutine's position
    unclosed         \* sessions constructed and not closed, by their number

passVars == <<session, created, closed, pc, qi, si, responses, limit, containers_map, nodes, node_map, ret>>

utilVars == <<time_range, prometheus_healthy, live, data>>

\* The windowed read and the cost endpoint.
extVars == <<arg_namespace, arg_workload, containers, caller, cost_data>>

\* Coroutines running concurrently on one client.
concVars == <<passes, frames, coros, unclosed>>

\* What the passes use and the health probe and the parser leave alone.
passLocal == <<qi, si, responses, limit, containers_map, nodes, node_map, extVars, concVars>>

vars == <<passVars, utilVars, extVars, concVars>>

-----------------------------------------------------------------------------
(* Bounds of the model. *)

\* Series the backend returns over one container-scope pass, all queries together.
MaxSeries == 3

\* Series the backend returns over one node-scope pass, all queries together.
MaxNodeSeries == 3

\* Characters of a duration token.
MaxTokenLen == 3

\* Series the backend returns to the health probe's query.
MaxUpSeries == 2

\* Sessions one client constructs over its life.
MaxSessions == 2

\* Samples of one series of a ranged query.
MaxWindow == 2

\* Series the backend returns to the concurrent passes, all together.
MaxPassSeries == 2

-----------------------------------------------------------------------------
(* Python values. *)

None == "None"

\* A dict with no entries.
EmptyDict == [k \in {} |-> 0]

\* dict.get(key, default)
Get(d, key, default) == IF key \in DOMAIN d THEN d[key] ELSE default

\* seq[:n] for a list
Slice(seq, n) ==
    IF n >= 0
    THEN SubSeq(seq, 1, IF n < Len(seq) THEN n ELSE Len(seq))
    ELSE SubSeq(seq, 1, IF Len(seq) + n > 0 THEN Len(seq) + n ELSE 0)

\* The value strings the backend sends in this model, and what float() makes
\* of them; float() raises ValueError on any other string.
FloatTable == [s \in {"3", "4", "-3"} |-> CASE s = "3" -> 3 [] s = "4" -> 4 [] s = "-3" -> 0 - 3]

FloatRaises(s) == s \notin DOMAIN FloatTable

float(s) == FloatTable[s]

\* datetime.fromtimestamp(float(t)) of a numeric epoch: order preserving and
\* never failing on the backend's numbers; a datetime is modelled by its epoch.
fromtimestamp(t) == t

\* All sequences over S of length at most n.
SeqsUpTo(S, n) == UNION {[1..k -> S] : k \in 0..n}

RECURSIVE SumLen(_)
SumLen(rs) == IF rs = <<>> THEN 0 ELSE Len(Head(rs).series) + SumLen(Tail(rs))

-----------------------------------------------------------------------------
(* The backend: label sets and samples of the series it returns. *)

MetricA1 == [container_name |-> "a", pod_name |-> "p", container_namespace |-> "ns", instance |-> "n1"]
\* the same container seen with another instance label
MetricA2 == [container_name |-> "a", pod_name |-> "p", container_namespace |-> "ns", instance |-> "n2"]
\* a label set without container_name and container_namespace
MetricB == [pod_name |-> "p", instance |-> "n2"]

Metrics == {MetricA1, MetricA2, MetricB}

\* [timestamp, "value"] pairs of an instant query.
Samples == {<<1, "3">>, <<2, "4">>}

\* Instant-query series: {"metric": {...}, "value": [ts, "strNum"]}; the last
\* two have a value the loops skip (too short) or cannot convert.
SeriesDomain ==
    {[metric |-> m, value |-> v] : m \in Metrics, v \in Samples}
    \cup {[metric |-> MetricA1, value |-> <<1>>],
          [metric |-> MetricA1, value |-> <<2, "x">>]}

\* What _prometheus_query raises in this model.
Exceptions == {"ClientError"}

-----------------------------------------------------------------------------
(* KeplerClient *)

\* _ensure_session: a session is created only when the client holds none.
EnsureSession(s) == IF s = None THEN "open" ELSE s

\* await self._ensure_session(), with the count of constructed sessions
ensure_session ==
    /\ session' = EnsureSession(session)
    /\ created' = IF session' # session THEN created + 1 ELSE created

\* result.get("data", {}).get("result", [])
ResultList(body) == Get(Get(body, "data", EmptyDict), "result", <<>>)

\* An instant vector holds at most one series per label set.
DistinctLabels(ss) == \A i, j \in 1..Len(ss) : ss[i].metric = ss[j].metric => i = j

\* The JSON bodies a successful query returns: up to n series out of S, or a
\* body without "data" or without "result".
BodiesOf(S, n) ==
    {[data |-> [result |-> ss]] : ss \in {x \in SeqsUpTo(S, n) : DistinctLabels(x)}}
    \cup {EmptyDict, [data |-> EmptyDict]}

Bodies(n) == BodiesOf(SeriesDomain, n)

\* if value_data and len(value_data) > 1
HasSample(series) == Len(Get(series, "value", <<>>)) > 1

\* A request that was not issued.
NotRun == [kind |-> "none", status |-> 0, body |-> EmptyDict, exc |-> None]

Returned(v) == [kind |-> "return", value |-> v, exc |-> None]
Raised(e)   == [kind |-> "raise", value |-> <<>>, exc |-> e]
Pending     == [kind |-> "pending", value |-> <<>>, exc |-> None]

\* The tasks that run correlation passes concurrently on one client.
Tasks == {"t1", "t2"}

\* A task that has not called yet.
IdleTask == [op |-> None, pc |-> "idle", qi |-> 0, responses |-> <<>>, ret |-> Pending]

\* The locals of a call before it assigns them.
NoLocals == [containers_map |-> <<>>, nodes |-> <<>>, node_map |-> EmptyDict]

\* The coroutines that use the session concurrently on one client.
Coros == {"c1", "c2", "c3"}

-----------------------------------------------------------------------------
(* get_all_container_metrics *)

\* The queries dict, in its insertion order.
queries == <<
    [metric_type |-> "total",  base_query |-> "kepler_container_joules_total"],
    [metric_type |-> "cpu",    base_query |-> "kepler_container_cpu_joules_total"],
    [metric_type |-> "gpu",    base_query |-> "kepler_container_gpu_joules_total"],
    [metric_type |-> "memory", base_query |-> "kepler_container_dram_joules_total"],
    [metric_type |-> "other",  base_query |-> "kepler_container_other_joules_total"] >>

DefaultLimit == 100

Limits == {1, DefaultLimit}

\* A component attribute no series has set (models.py).
ComponentDefault == 0

\* The record class: the constructor's fields and one attribute per metric type.
ContainerPowerData(container_name, pod_name, namespace, node_name, power_joules, timestamp, labels) ==
    [container_name |-> container_name, pod_name |-> pod_name, namespace |-> namespace,
     node_name |-> node_name, power_joules |-> power_joules, timestamp |-> timestamp,
     labels |-> labels,
     total_power_joules |-> ComponentDefault, cpu_power_joules |-> ComponentDefault,
     gpu_power_joules |-> ComponentDefault, memory_power_joules |-> ComponentDefault,
     other_power_joules |-> ComponentDefault]

\* f"{metric_type}_power_joules"
AttrName(metric_type) ==
    CASE metric_type = "total"    -> "total_power_joules"
      [] metric_type = "cpu"      -> "cpu_power_joules"
      [] metric_type = "gpu"      -> "gpu_power_joules"
      [] metric_type = "memory"   -> "memory_power_joules"
      [] metric_type = "other"    -> "other_power_joules"
      [] metric_type = "platform" -> "platform_power_joules"
      [] metric_type = "dram"     -> "dram_power_joules"
      [] metric_type = "uncore"   -> "uncore_power_joules"
      [] metric_type = "pkg"      -> "pkg_power_joules"

\* setattr(obj, name, value)
setattr(obj, name, value) == [obj EXCEPT ![name] = value]

\* container_key of a series' label set
ContainerKey(metric) ==
    << Get(metric, "container_name", "unknown"),
       Get(metric, "pod_name", "unknown"),
       Get(metric, "container_namespace", "unknown") >>

\* The dict is a sequence of entries in insertion order.
DictIndex(d, key) == {i \in 1..Len(d) : d[i].key = key}

DictHas(d, key) == DictIndex(d, key) # {}

DictValues(d) == [i \in 1..Len(d) |-> d[i].value]

\* The shell assigned for every series, without the membership test: the entry
\* of a key already in the dict is replaced in place by a fresh shell.
InsertShell_Always(d, key, metric, value_data) ==
    LET shell == [key |-> key,
                  value |-> ContainerPowerData(key[1], key[2], key[3],
                                Get(metric, "instance", "unknown"), 0,
                                fromtimestamp(value_data[1]), metric)]
    IN  IF DictHas(d, key)
        THEN [i \in 1..Len(d) |-> IF d[i].key = key THEN shell ELSE d[i]]
        ELSE Append(d, shell)

\* if container_key not in containers_map: containers_map[container_key] = ContainerPowerData(...)
InsertShell(d, key, metric, value_data) ==
    IF DictHas(d, key) THEN d
    ELSE Append(d, [key |-> key,
                    value |-> ContainerPowerData(key[1], key[2], key[3],
                                  Get(metric, "instance", "unknown"), 0,
                                  fromtimestamp(value_data[1]), metric)])

\* setattr(containers_map[container_key], f"{metric_type}_power_joules", float(value_data[1]))
SetComponent(d, key, metric_type, v) ==
    [i \in 1..Len(d) |->
        IF d[i].key = key
        THEN [d[i] EXCEPT !.value = setattr(d[i].value, AttrName(metric_type), v)]
        ELSE d[i]]

\* One iteration of the series loop on a series that has a sample.
MergeContainerSeries(d, metric_type, series) ==
    SetComponent(InsertShell(d, ContainerKey(series.metric), series.metric, series.value),
                 ContainerKey(series.metric), metric_type, float(series.value[2]))

CurrentResult == responses[qi].series

CallContainer ==
    /\ pc = "idle"
    /\ \E l \in Limits : limit' = l
    /\ containers_map' = <<>>
    /\ responses' = <<>>
    /\ qi' = 1
    /\ si' = 0
    /\ pc' = "c_query"
    /\ ret' = Pending
    /\ UNCHANGED <<session, created, nodes, node_map>>
    /\ UNCHANGED <<closed, utilVars, extVars, concVars>>

\* result = await self._prometheus_query(query) raises: the pass re-raises.
ContainerQueryRaise ==
    /\ pc = "c_query"
    /\ \E e \in Exceptions : ret' = Raised(e)
    /\ ensure_session
    /\ responses' = Append(responses, [ok |-> FALSE, series |-> <<>>])
    /\ pc' = "c_done"
    /\ UNCHANGED <<qi, si, limit, containers_map, nodes, node_map>>
    /\ UNCHANGED <<closed, utilVars, extVars, concVars>>

ContainerQueryOk ==
    /\ pc = "c_query"
    /\ \E body \in Bodies(MaxSeries - SumLen(responses)) :
          responses' = Append(responses, [ok |-> TRUE, series |-> ResultList(body)])
    /\ ensure_session
    /\ si' = 1
    /\ pc' = "c_loop"
    /\ UNCHANGED <<qi, limit, containers_map, nodes, node_map, ret>>
    /\ UNCHANGED <<closed, utilVars, extVars, concVars>>

\* for series in result...: one iteration.
ContainerSeries ==
    /\ pc = "c_loop"
    /\ si <= Len(CurrentResult)
    /\ LET series == CurrentResult[si] IN
       IF ~HasSample(series)
       THEN /\ si' = si + 1
            /\ UNCHANGED <<pc, containers_map, ret>>
       ELSE IF FloatRaises(series.value[2])
       THEN \* float() raises after the shell was inserted; the pass re-raises
            /\ containers_map' = InsertShell(containers_map, ContainerKey(series.metric),
                                             series.metric, series.value)
            /\ ret' = Raised("ValueError")
            /\ pc' = "c_done"
            /\ UNCHANGED si
       ELSE /\ containers_map' = MergeContainerSeries(containers_map, queries[qi].metric_type, series)
            /\ si' = si + 1
            /\ UNCHANGED <<pc, ret>>
    /\ UNCHANGED <<session, created, qi, responses, limit, nodes, node_map>>
    /\ UNCHANGED <<closed, utilVars, extVars, concVars>>

\* The result is exhausted: on to the next entry of the queries dict.
ContainerNextQuery ==
    /\ pc = "c_loop"
    /\ si > Len(CurrentResult)
    /\ qi < Len(queries)
    /\ qi' = qi + 1
    /\ si' = 0
    /\ pc' = "c_query"
    /\ UNCHANGED <<session, created, responses, limit, containers_map, nodes, node_map, ret>>
    /\ UNCHANGED <<closed, utilVars, extVars, concVars>>

\* containers = list(containers_map.values())[:limit]; return containers
ContainerReturn ==
    /\ pc = "c_loop"
    /\ si > Len(CurrentResult)
    /\ qi = Len(queries)
    /\ ret' = Returned(Slice(DictValues(containers_map), limit))
    /\ pc' = "c_done"
    /\ UNCHANGED <<session, created, qi, si, responses, limit, containers_map, nodes, node_map>>
    /\ UNCHANGED <<closed, utilVars, extVars, concVars>>

Init ==
    /\ session = None
    /\ created = 0
    /\ closed = 0
    /\ pc = "idle"
    /\ qi = 0
    /\ si = 0
    /\ responses = <<>>
    /\ limit = DefaultLimit
    /\ containers_map = <<>>
    /\ nodes = <<>>
    /\ node_map = EmptyDict
    /\ ret = Pending
    /\ time_range = <<>>
    /\ prometheus_healthy = None
    /\ live = NotRun
    /\ data = NotRun
    /\ arg_namespace = None
    /\ arg_workload = None
    /\ containers = <<>>
    /\ caller = None
    /\ cost_data = None
    /\ passes = [t \in Tasks |-> IdleTask]
    /\ frames = [t \in Tasks |-> NoLocals]
    /\ coros = [c \in Coros |-> "idle"]
    /\ unclosed = {}

NextContainer ==
    \/ CallContainer
    \/ ContainerQueryRaise
    \/ ContainerQueryOk
    \/ ContainerSeries
    \/ ContainerNextQuery
    \/ ContainerReturn

SpecContainer == Init /\ [][NextContainer]_vars

-----------------------------------------------------------------------------
(* get_node_power_metrics and _enrich_node_metrics *)

\* The platform query, then the component_queries dict in its insertion order.
node_queries == <<
    [metric_type |-> "platform", query |-> "kepler_node_platform_joules_total"],
    [metric_type |-> "cpu",      query |-> "kepler_node_cpu_joules_total"],
    [metric_type |-> "dram",     query |-> "kepler_node_dram_joules_total"],
    [metric_type |-> "uncore",   query |-> "kepler_node_uncore_joules_total"],
    [metric_type |-> "pkg",      query |-> "kepler_node_package_joules_total"] >>

\* The record class: the constructor's fields and one attribute per component.
NodePowerData(node_name, platform_power_joules, timestamp, labels) ==
    [node_name |-> node_name, platform_power_joules |-> platform_power_joules,
     timestamp |-> timestamp, labels |-> labels,
     cpu_power_joules |-> ComponentDefault, dram_power_joules |-> ComponentDefault,
     uncore_power_joules |-> ComponentDefault, pkg_power_joules |-> ComponentDefault]

\* metric.get("instance", "unknown")
NodeKey(metric) == Get(metric, "instance", "unknown")

\* node_data = NodePowerData(...) of a platform series
NodeShell(series) ==
    NodePowerData(NodeKey(series.metric), float(series.value[2]),
                  fromtimestamp(series.value[1]), series.metric)

\* nodes.append(node_data)
AppendNode(ns, series) == Append(ns, NodeShell(series))

\* {node.node_name: node for node in nodes}: a later node of the same name
\* replaces an earlier one; the dict holds the object, here its index in nodes.
BuildNodeMap(ns) ==
    [name \in {ns[i].node_name : i \in 1..Len(ns)} |->
        CHOOSE i \in 1..Len(ns) :
            /\ ns[i].node_name = name
            /\ \A j \in 1..Len(ns) : ns[j].node_name = name => j <= i]

\* setattr(node_map[node_name], f"{component}_power_joules", float(value_data[1]))
EnrichNode(ns, nm, component, series) ==
    [ns EXCEPT ![nm[NodeKey(series.metric)]] =
        setattr(@, AttrName(component), float(series.value[2]))]

CallNode ==
    /\ pc = "idle"
    /\ nodes' = <<>>
    /\ node_map' = EmptyDict
    /\ responses' = <<>>
    /\ qi' = 1
    /\ si' = 0
    /\ pc' = "n_query"
    /\ ret' = Pending
    /\ UNCHANGED <<session, created, limit, containers_map>>
    /\ UNCHANGED <<closed, utilVars, extVars, concVars>>

\* The platform query raises: get_node_power_metrics logs and re-raises.
PlatformQueryRaise ==
    /\ pc = "n_query"
    /\ \E e \in Exceptions : ret' = Raised(e)
    /\ ensure_session
    /\ responses' = Append(responses, [ok |-> FALSE, series |-> <<>>])
    /\ pc' = "n_done"
    /\ UNCHANGED <<qi, si, limit, containers_map, nodes, node_map>>
    /\ UNCHANGED <<closed, utilVars, extVars, concVars>>

PlatformQueryOk ==
    /\ pc = "n_query"
    /\ \E body \in Bodies(MaxNodeSeries - SumLen(responses)) :
          responses' = Append(responses, [ok |-> TRUE, series |-> ResultList(body)])
    /\ ensure_session
    /\ si' = 1
    /\ pc' = "n_loop"
    /\ UNCHANGED <<qi, limit, containers_map, nodes, node_map, ret>>
    /\ UNCHANGED <<closed, utilVars, extVars, concVars>>

\* One iteration of the loop over the platform series.
PlatformSeries ==
    /\ pc = "n_loop"
    /\ si <= Len(CurrentResult)
    /\ LET series == CurrentResult[si] IN
       IF ~HasSample(series)
       THEN /\ si' = si + 1
            /\ UNCHANGED <<pc, nodes, ret>>
       ELSE IF FloatRaises(series.value[2])
       THEN /\ ret' = Raised("ValueError")
            /\ pc' = "n_done"
            /\ UNCHANGED <<si, nodes>>
       ELSE /\ nodes' = AppendNode(nodes, series)
            /\ si' = si + 1
            /\ UNCHANGED <<pc, ret>>
    /\ UNCHANGED <<session, created, qi, responses, limit, containers_map, node_map>>
    /\ UNCHANGED <<closed, utilVars, extVars, concVars>>

\* await self._enrich_node_metrics(nodes): node_map is built, then the first
\* component query is due.
EnrichStart ==
    /\ pc = "n_loop"
    /\ si > Len(CurrentResult)
    /\ node_map' = BuildNodeMap(nodes)
    /\ qi' = 2
    /\ si' = 0
    /\ pc' = "e_query"
    /\ UNCHANGED <<session, created, responses, limit, containers_map, nodes, ret>>
    /\ UNCHANGED <<closed, utilVars, extVars, concVars>>

\* The component query's exception escapes _enrich_node_metrics, as it would
\* without the try/except around the query.
ComponentQueryRaise_Propagates ==
    /\ pc = "e_query"
    /\ \E e \in Exceptions : ret' = Raised(e)
    /\ ensure_session
    /\ responses' = Append(responses, [ok |-> FALSE, series |-> <<>>])
    /\ pc' = "n_done"
    /\ UNCHANGED <<qi, si, limit, containers_map, nodes, node_map>>
    /\ UNCHANGED <<closed, utilVars, extVars, concVars>>

\* A component query raises: except Exception -> warning, continue.
ComponentQueryRaise ==
    /\ pc = "e_query"
    /\ ensure_session
    /\ responses' = Append(responses, [ok |-> FALSE, series |-> <<>>])
    /\ si' = 1
    /\ pc' = "e_loop"
    /\ UNCHANGED <<qi, limit, containers_map, nodes, node_map, ret>>
    /\ UNCHANGED <<closed, utilVars, extVars, concVars>>

ComponentQueryOk ==
    /\ pc = "e_query"
    /\ \E body \in Bodies(MaxNodeSeries - SumLen(responses)) :
          responses' = Append(responses, [ok |-> TRUE, series |-> ResultList(body)])
    /\ ensure_session
    /\ si' = 1
    /\ pc' = "e_loop"
    /\ UNCHANGED <<qi, limit, containers_map, nodes, node_map, ret>>
    /\ UNCHANGED <<closed, utilVars, extVars, concVars>>

\* One iteration of the loop over a component's series.
ComponentSeries ==
    /\ pc = "e_loop"
    /\ si <= Len(CurrentResult)
    /\ LET series == CurrentResult[si] IN
       IF ~HasSample(series) \/ NodeKey(series.metric) \notin DOMAIN node_map
       THEN /\ si' = si + 1
            /\ UNCHANGED nodes
       ELSE IF FloatRaises(series.value[2])
       THEN \* float() raises inside the try: the rest of this result is dropped
            /\ si' = Len(CurrentResult) + 1
            /\ UNCHANGED nodes
       ELSE /\ nodes' = EnrichNode(nodes, node_map, node_queries[qi].metric_type, series)
            /\ si' = si + 1
    /\ UNCHANGED <<session, created, pc, qi, responses, limit, containers_map, node_map, ret>>
    /\ UNCHANGED <<closed, utilVars, extVars, concVars>>

ComponentNext ==
    /\ pc = "e_loop"
    /\ si > Len(CurrentResult)
    /\ qi < Len(node_queries)
    /\ qi' = qi + 1
    /\ si' = 0
    /\ pc' = "e_query"
    /\ UNCHANGED <<session, created, responses, limit, containers_map, nodes, node_map, ret>>
    /\ UNCHANGED <<closed, utilVars, extVars, concVars>>

\* _enrich_node_metrics is over: return nodes
NodeReturn ==
    /\ pc = "e_loop"
    /\ si > Len(CurrentResult)
    /\ qi = Len(node_queries)
    /\ ret' = Returned(nodes)
    /\ pc' = "n_done"
    /\ UNCHANGED <<session, created, qi, si, responses, limit, containers_map, nodes, node_map>>
    /\ UNCHANGED <<closed, utilVars, extVars, concVars>>

NextNode ==
    \/ CallNode
    \/ PlatformQueryRaise
    \/ PlatformQueryOk
    \/ PlatformSeries
    \/ EnrichStart
    \/ ComponentQueryRaise
    \/ ComponentQueryOk
    \/ ComponentSeries
    \/ ComponentNext
    \/ NodeReturn

SpecNode == Init /\ [][NextNode]_vars

-----------------------------------------------------------------------------
(* _parse_time_range *)

\* A str is a sequence of characters.
Digits == {"0", "1", "2", "3"}

Chars == Digits \cup {"m", "h", "d", "s", "x", "y", "z", "-"}

Tokens == SeqsUpTo(Chars, MaxTokenLen)

\* str.endswith(c) for a single character
endswith(str, c) == Len(str) > 0 /\ str[Len(str)] = c

\* str[:-1]
DropLast(str) == Slice(str, -1)

DigitValue(c) == CASE c = "0" -> 0 [] c = "1" -> 1 [] c = "2" -> 2 [] c = "3" -> 3

RECURSIVE Decimal(_)
Decimal(ds) ==
    IF ds = <<>> THEN 0 ELSE 10 * Decimal(SubSeq(ds, 1, Len(ds) - 1)) + DigitValue(ds[Len(ds)])

AllDigits(ds) == Len(ds) > 0 /\ \A i \in 1..Len(ds) : ds[i] \in Digits

\* int(str) raises ValueError unless str is an optional sign and then digits
\* (of the characters of this model).
IsNumeral(str) ==
    \/ AllDigits(str)
    \/ Len(str) > 1 /\ str[1] = "-" /\ AllDigits(Tail(str))

IntRaises(str) == ~IsNumeral(str)

int(str) == IF str[1] = "-" THEN 0 - Decimal(Tail(str)) ELSE Decimal(str)

\* A timedelta is its number of seconds.
timedelta(days, hours, minutes) == 86400 * days + 3600 * hours + 60 * minutes

DefaultMinutes == 5

\* _parse_time_range(time_range): the value returned, or the exception raised.
ParseTimeRange(str) ==
    IF endswith(str, "m") \/ endswith(str, "h") \/ endswith(str, "d")
    THEN IF IntRaises(DropLast(str))
         THEN Raised("ValueError")
         ELSE Returned(CASE endswith(str, "m") -> timedelta(0, 0, int(DropLast(str)))
                         [] endswith(str, "h") -> timedelta(0, int(DropLast(str)), 0)
                         [] endswith(str, "d") -> timedelta(int(DropLast(str)), 0, 0))
    ELSE Returned(timedelta(0, 0, DefaultMinutes))

CallParse ==
    /\ pc = "idle"
    /\ \E str \in Tokens : time_range' = str
    /\ ret' = Pending
    /\ pc' = "p_call"
    /\ UNCHANGED <<prometheus_healthy, live, data>>
    /\ UNCHANGED <<session, created, closed, passLocal>>

ParseReturn ==
    /\ pc = "p_call"
    /\ ret' = ParseTimeRange(time_range)
    /\ pc' = "p_done"
    /\ UNCHANGED <<time_range, prometheus_healthy, live, data>>
    /\ UNCHANGED <<session, created, closed, passLocal>>

NextParse ==
    \/ CallParse
    \/ ParseReturn

SpecParse == Init /\ [][NextParse]_vars

-----------------------------------------------------------------------------
(* health_check and close *)

\* HTTP status codes of the liveness response.
StatusCodes == {200, 404, 503}

HealthExceptions == {"ClientError", "TimeoutError"}

\* The series of up{job=~"kepler.*"}: one per scraped exporter.
UpSeries ==
    {[metric |-> [job |-> "kepler", instance |-> i], value |-> <<1, "1">>] : i \in {"n1", "n2"}}

\* The report with a status that is healthy as soon as one check succeeded.
Report_EitherHealthy(prometheus, kepler) ==
    [prometheus |-> prometheus, kepler |-> kepler,
     status |-> IF prometheus \/ kepler THEN "healthy" ELSE "unhealthy",
     error |-> None]

\* The dict health_check returns from its try block.
Report(prometheus, kepler) ==
    [prometheus |-> prometheus, kepler |-> kepler,
     status |-> IF prometheus /\ kepler THEN "healthy" ELSE "unhealthy",
     error |-> None]

\* The dict health_check returns from its except block.
ErrorReport(e) ==
    [prometheus |-> FALSE, kepler |-> FALSE, status |-> "unhealthy", error |-> e]

\* await self._ensure_session(), on entry to the try block
CallHealth ==
    /\ pc = "idle"
    /\ session # None \/ created < MaxSessions
    /\ ensure_session
    /\ prometheus_healthy' = None
    /\ live' = NotRun
    /\ data' = NotRun
    /\ pc' = "h_get"
    /\ UNCHANGED <<ret, closed, time_range>>
    /\ UNCHANGED passLocal

\* async with self.session.get(health_url) as response: a response arrives.
HealthGetStatus ==
    /\ pc = "h_get"
    /\ \E status \in StatusCodes :
          /\ live' = [kind |-> "status", status |-> status, body |-> EmptyDict, exc |-> None]
          /\ prometheus_healthy' = (status = 200)
    /\ pc' = "h_query"
    /\ UNCHANGED <<session, created, closed, ret, data, time_range>>
    /\ UNCHANGED passLocal

\* The liveness request raises: the except block returns the error report.
HealthGetRaise ==
    /\ pc = "h_get"
    /\ \E e \in HealthExceptions :
          /\ live' = [kind |-> "raise", status |-> 0, body |-> EmptyDict, exc |-> e]
          /\ ret' = Returned(ErrorReport(e))
    /\ pc' = "idle"
    /\ UNCHANGED <<session, created, closed, prometheus_healthy, data, time_range>>
    /\ UNCHANGED passLocal

\* kepler_metrics = await self._prometheus_query(query), and the return.
HealthQueryOk ==
    /\ pc = "h_query"
    /\ \E body \in BodiesOf(UpSeries, MaxUpSeries) :
          /\ data' = [kind |-> "body", status |-> 200, body |-> body, exc |-> None]
          /\ ret' = Returned(Report(prometheus_healthy, Len(ResultList(body)) > 0))
    /\ ensure_session
    /\ pc' = "idle"
    /\ UNCHANGED <<closed, prometheus_healthy, live, time_range>>
    /\ UNCHANGED passLocal

\* The query raises: the except block returns the error report.
HealthQueryRaise ==
    /\ pc = "h_query"
    /\ \E e \in HealthExceptions :
          /\ data' = [kind |-> "raise", status |-> 0, body |-> EmptyDict, exc |-> e]
          /\ ret' = Returned(ErrorReport(e))
    /\ ensure_session
    /\ pc' = "idle"
    /\ UNCHANGED <<closed, prometheus_healthy, live, time_range>>
    /\ UNCHANGED passLocal

\* close(): if self.session: await self.session.close(); self.session = None
Close ==
    /\ pc = "idle"
    /\ session # None
    /\ session' = None
    /\ closed' = closed + 1
    /\ UNCHANGED <<created, pc, ret, utilVars>>
    /\ UNCHANGED passLocal

NextHealth ==
    \/ CallHealth
    \/ HealthGetStatus
    \/ HealthGetRaise
    \/ HealthQueryOk
    \/ HealthQueryRaise
    \/ Close

SpecHealth == Init /\ [][NextHealth]_vars

-----------------------------------------------------------------------------
(* get_container_power_metrics *)

\* The time_range arguments of this model: main.py's "1h", a token with a
\* suffix and no number, and the empty string.
TimeRanges == {<<"1", "h">>, <<"d">>, <<>>}

Namespaces == {None, "ns"}

Workloads == {None, "p"}

\* The value strings of a ranged result; "x" does not convert.
WindowValues == {"3", "4", "-3", "x"}

\* Label sets of the ranged result.
WindowMetrics == {MetricA1, MetricB}

\* "values" of a series: one [ts, "strNum"] per step, timestamps ascending.
WindowSamples ==
    UNION {{[i \in 1..k |-> <<i, f[i]>>] : f \in [1..k -> WindowValues]} : k \in 0..MaxWindow}

\* Ranged series: {"metric": {...}, "values": [[ts, "strNum"], ...]}
RangeSeriesDomain == {[metric |-> m, values |-> vs] : m \in WindowMetrics, vs \in WindowSamples}

\* Instant series, which the backend sends when the query is not ranged.
InstantSeriesDomain == {[metric |-> m, value |-> <<1, "3">>] : m \in WindowMetrics}

\* /api/v1/query_range if time_range else /api/v1/query
Ranged(tr) == tr # <<>>

\* query = f'{base_query}{{{",".join(filters)}}}' if filters else base_query
WindowQuery(ns, wl) ==
    [base_query |-> "kepler_container_joules_total",
     filters |-> (IF ns # None THEN <<[label |-> "container_namespace", op |-> "=", value |-> ns]>> ELSE <<>>)
                 \o (IF wl # None THEN <<[label |-> "pod_name", op |-> "=~", value |-> wl]>> ELSE <<>>)]

\* latest_value = values[-1]
Last(values) == values[Len(values)]

\* The record of a series with samples, stamped with the time of the window's
\* first sample instead of the last one's.
WindowRecord_FirstTimestamp(series) ==
    LET values == Get(series, "values", <<>>)
        latest_value == Last(values)
    IN  ContainerPowerData(Get(series.metric, "container_name", "unknown"),
                           Get(series.metric, "pod_name", "unknown"),
                           Get(series.metric, "container_namespace", "unknown"),
                           Get(series.metric, "instance", "unknown"),
                           float(latest_value[2]),
                           fromtimestamp(values[1][1]),
                           series.metric)

\* container_data = ContainerPowerData(...) of a series with samples
WindowRecord(series) ==
    LET values == Get(series, "values", <<>>)
        latest_value == Last(values)
    IN  ContainerPowerData(Get(series.metric, "container_name", "unknown"),
                           Get(series.metric, "pod_name", "unknown"),
                           Get(series.metric, "container_namespace", "unknown"),
                           Get(series.metric, "instance", "unknown"),
                           float(latest_value[2]),
                           fromtimestamp(latest_value[1]),
                           series.metric)

\* The call, up to the first await inside _prometheus_query.  Building the
\* parameters of a ranged query parses time_range, outside the try of
\* _prometheus_query: its ValueError reaches the except of this method.
WindowStart ==
    /\ containers' = <<>>
    /\ responses' = <<>>
    /\ qi' = 1
    /\ si' = 0
    /\ cost_data' = None
    /\ ensure_session
    /\ IF Ranged(time_range') /\ ParseTimeRange(time_range').kind = "raise"
       THEN /\ ret' = Raised(ParseTimeRange(time_range').exc)
            /\ pc' = "w_done"
       ELSE /\ ret' = Pending
            /\ pc' = "w_query"
    /\ UNCHANGED <<closed, limit, containers_map, nodes, node_map>>
    /\ UNCHANGED <<prometheus_healthy, live, data, concVars>>

CallWindow ==
    /\ pc = "idle"
    /\ \E tr \in TimeRanges : time_range' = tr
    /\ \E ns \in Namespaces : arg_namespace' = ns
    /\ \E wl \in Workloads : arg_workload' = wl
    /\ caller' = "direct"
    /\ WindowStart

\* result = await self._prometheus_query(query, time_range) raises
WindowQueryRaise ==
    /\ pc = "w_query"
    /\ \E e \in Exceptions : ret' = Raised(e)
    /\ responses' = Append(responses, [ok |-> FALSE, series |-> <<>>])
    /\ pc' = "w_done"
    /\ UNCHANGED <<session, created, closed, qi, si, limit, containers_map, nodes, node_map>>
    /\ UNCHANGED <<utilVars, arg_namespace, arg_workload, containers, caller, cost_data, concVars>>

WindowQueryOk ==
    /\ pc = "w_query"
    /\ \E body \in BodiesOf(IF Ranged(time_range) THEN RangeSeriesDomain ELSE InstantSeriesDomain,
                            Cardinality(WindowMetrics)) :
          responses' = Append(responses, [ok |-> TRUE, series |-> ResultList(body)])
    /\ si' = 1
    /\ pc' = "w_loop"
    /\ UNCHANGED <<session, created, closed, qi, limit, containers_map, nodes, node_map, ret>>
    /\ UNCHANGED <<utilVars, arg_namespace, arg_workload, containers, caller, cost_data, concVars>>

\* for series in result...: one iteration.
WindowSeries ==
    /\ pc = "w_loop"
    /\ si <= Len(CurrentResult)
    /\ LET series == CurrentResult[si]
           values == Get(series, "values", <<>>)
       IN  IF values = <<>>
           THEN /\ si' = si + 1
                /\ UNCHANGED <<pc, containers, ret>>
           ELSE IF FloatRaises(Last(values)[2])
           THEN /\ ret' = Raised("ValueError")
                /\ pc' = "w_done"
                /\ UNCHANGED <<si, containers>>
           ELSE /\ containers' = Append(containers, WindowRecord(series))
                /\ si' = si + 1
                /\ UNCHANGED <<pc, ret>>
    /\ UNCHANGED <<session, created, closed, qi, responses, limit, containers_map, nodes, node_map>>
    /\ UNCHANGED <<utilVars, arg_namespace, arg_workload, caller, cost_data, concVars>>

\* return containers
WindowReturn ==
    /\ pc = "w_loop"
    /\ si > Len(CurrentResult)
    /\ ret' = Returned(containers)
    /\ pc' = "w_done"
    /\ UNCHANGED <<session, created, closed, qi, si, responses, limit, containers_map, nodes, node_map>>
    /\ UNCHANGED <<utilVars, arg_namespace, arg_workload, containers, caller, cost_data, concVars>>

NextWindow ==
    \/ CallWindow
    \/ WindowQueryRaise
    \/ WindowQueryOk
    \/ WindowSeries
    \/ WindowReturn

SpecWindow == Init /\ [][NextWindow]_vars

-----------------------------------------------------------------------------
(* get_current_cost (main.py) and the cost calculator it calls *)

\* An exact number: num / den with den > 0.
Rat(num, den) == [num |-> num, den |-> den]

RatMul(a, b) == Rat(a.num * b.num, a.den * b.den)

RatAdd(a, b) ==
    IF a.den = b.den THEN Rat(a.num + b.num, a.den)
    ELSE Rat(a.num * b.den + b.num * a.den, a.den * b.den)

RatEq(a, b) == a.num * b.den = b.num * a.den

\* Joules of one kWh.
JoulesPerKWh == 3600000

\* The configuration the calculator is built with: electricity rate, cooling
\* factor (at least 1) and carbon rate.
CostConfigs ==
    {[electricityRate |-> Rat(15, 100), coolingFactor |-> c, carbonRate |-> Rat(1, 2)] :
        c \in {Rat(1, 1), Rat(3, 2)}}

\* The energy of a record, in joules.
RecordEnergy(record) == record.power_joules

\* The calculator without the clamp: the energy is converted as it is.
calculateCost_NoClamp(record, config) ==
    LET kWh == Rat(RecordEnergy(record), JoulesPerKWh)
    IN  [energy_cost_amount |-> RatMul(RatMul(kWh, config.electricityRate), config.coolingFactor),
         carbon_mass_estimate |-> RatMul(kWh, config.carbonRate)]

\* calculateCost(record): negative energy is clamped to zero, then
\* kWh = joules / 3_600_000, cost = kWh x rate x cooling, carbon = kWh x carbonRate.
calculateCost(record, config) ==
    LET joules == IF RecordEnergy(record) < 0 THEN 0 ELSE RecordEnergy(record)
        kWh == Rat(joules, JoulesPerKWh)
    IN  [energy_cost_amount |-> RatMul(RatMul(kWh, config.electricityRate), config.coolingFactor),
         carbon_mass_estimate |-> RatMul(kWh, config.carbonRate)]

RECURSIVE SumCost(_)
SumCost(results) ==
    IF results = <<>>
    THEN [energy_cost_amount |-> Rat(0, 1), carbon_mass_estimate |-> Rat(0, 1)]
    ELSE LET rest == SumCost(Tail(results))
         IN  [energy_cost_amount |-> RatAdd(Head(results).energy_cost_amount, rest.energy_cost_amount),
              carbon_mass_estimate |-> RatAdd(Head(results).carbon_mass_estimate, rest.carbon_mass_estimate)]

\* calculateTotalCost(records): the per-entity results in input order and their sum.
calculate_total_cost(records, config) ==
    LET results == [k \in 1..Len(records) |-> calculateCost(records[k], config)]
    IN  [total |-> SumCost(results),
         perEntity |-> [k \in 1..Len(records) |->
                          [key |-> <<records[k].container_name, records[k].pod_name, records[k].namespace>>,
                           cost |-> results[k]]]]

\* power_data = await kepler_client.get_container_power_metrics(namespace, workload, time_range="1h")
CallCurrentCost ==
    /\ pc = "idle"
    /\ time_range' = <<"1", "h">>
    /\ \E ns \in Namespaces : arg_namespace' = ns
    /\ \E wl \in Workloads : arg_workload' = wl
    /\ caller' = "get_current_cost"
    /\ WindowStart

\* cost_data = power_calculator.calculate_total_cost(power_data); return {...}
CostReturn ==
    /\ pc = "w_done"
    /\ caller = "get_current_cost"
    /\ ret.kind = "return"
    /\ \E config \in CostConfigs : cost_data' = calculate_total_cost(ret.value, config)
    /\ ret' = Returned(cost_data')
    /\ pc' = "cost_done"
    /\ UNCHANGED <<session, created, closed, qi, si, responses, limit, containers_map, nodes, node_map>>
    /\ UNCHANGED <<utilVars, arg_namespace, arg_workload, containers, caller, concVars>>

\* except Exception as e: raise HTTPException(status_code=500, ...)
CostRaise ==
    /\ pc = "w_done"
    /\ caller = "get_current_cost"
    /\ ret.kind = "raise"
    /\ ret' = Raised("HTTPException")
    /\ pc' = "cost_done"
    /\ UNCHANGED <<session, created, closed, qi, si, responses, limit, containers_map, nodes, node_map>>
    /\ UNCHANGED <<utilVars, extVars, concVars>>

NextCost ==
    \/ CallCurrentCost
    \/ WindowQueryRaise
    \/ WindowQueryOk
    \/ WindowSeries
    \/ WindowReturn
    \/ CostReturn
    \/ CostRaise

SpecCost == Init /\ [][NextCost]_vars

-----------------------------------------------------------------------------
(* Correlation passes running concurrently on one client.  Between two awaits *)
(* a coroutine runs without interruption: a step is the code from one query's *)
(* answer up to the next query's await, or to the return.                     *)

PassOps == {"container", "node"}

\* Series the backend returns to the concurrent passes: the same container on
\* two instances, and a value that does not convert.
PassSeriesDomain ==
    {[metric |-> MetricA1, value |-> <<1, "3">>],
     [metric |-> MetricA2, value |-> <<2, "4">>],
     [metric |-> MetricA1, value |-> <<2, "x">>]}

\* The locals of every call kept in one place, as attributes of the client
\* would be.
Frame_Shared(t) == "t1"

\* containers_map, nodes and node_map are local variables of the call: each
\* task's call has a frame of its own.
Frame(t) == t

\* The series loop of get_all_container_metrics over one result: the dict
\* after it, and the exception that ended it, if any.
RECURSIVE ContainerLoop(_, _, _)
ContainerLoop(d, metric_type, ss) ==
    IF ss = <<>> THEN [map |-> d, exc |-> None]
    ELSE LET series == Head(ss) IN
         IF ~HasSample(series) THEN ContainerLoop(d, metric_type, Tail(ss))
         ELSE IF FloatRaises(series.value[2])
         THEN [map |-> InsertShell(d, ContainerKey(series.metric), series.metric, series.value),
               exc |-> "ValueError"]
         ELSE ContainerLoop(MergeContainerSeries(d, metric_type, series), metric_type, Tail(ss))

\* The series loop of get_node_power_metrics over the platform result.
RECURSIVE PlatformLoop(_, _)
PlatformLoop(ns, ss) ==
    IF ss = <<>> THEN [nodes |-> ns, exc |-> None]
    ELSE LET series == Head(ss) IN
         IF ~HasSample(series) THEN PlatformLoop(ns, Tail(ss))
         ELSE IF FloatRaises(series.value[2]) THEN [nodes |-> ns, exc |-> "ValueError"]
         ELSE PlatformLoop(AppendNode(ns, series), Tail(ss))

\* The series loop of _enrich_node_metrics over one component's result; a
\* value that does not convert ends the loop (except Exception: continue).
RECURSIVE ComponentLoop(_, _, _, _)
ComponentLoop(ns, nm, component, ss) ==
    IF ss = <<>> THEN ns
    ELSE LET series == Head(ss) IN
         IF ~HasSample(series) \/ NodeKey(series.metric) \notin DOMAIN nm
         THEN ComponentLoop(ns, nm, component, Tail(ss))
         ELSE IF FloatRaises(series.value[2]) THEN ns
         ELSE ComponentLoop(EnrichNode(ns, nm, component, series), nm, component, Tail(ss))

RECURSIVE SeriesGiven(_)
SeriesGiven(T) ==
    IF T = {} THEN 0
    ELSE LET t == CHOOSE x \in T : TRUE
         IN  SumLen(passes[t].responses) + SeriesGiven(T \ {t})

\* The task's record when its call ends: how it ended.
Ended(p, resp, outcome) == [p EXCEPT !.responses = resp, !.pc = "done", !.ret = outcome]

\* The task's record when the next query is awaited.
NextAwait(p, resp) == [p EXCEPT !.responses = resp, !.qi = p.qi + 1]

\* A task calls get_all_container_metrics() or get_node_power_metrics() and
\* runs up to the await of the first query.
PassCall(t) ==
    /\ passes[t].pc = "idle"
    /\ \E op \in PassOps :
          /\ passes' = [passes EXCEPT ![t] =
                           [op |-> op, pc |-> "await", qi |-> 1, responses |-> <<>>, ret |-> Pending]]
          /\ frames' = IF op = "container"
                       THEN [frames EXCEPT ![Frame(t)].containers_map = <<>>]
                       ELSE frames
    /\ ensure_session
    /\ UNCHANGED <<closed, pc, qi, si, responses, limit, containers_map, nodes, node_map, ret>>
    /\ UNCHANGED <<utilVars, extVars, coros, unclosed>>

\* The awaited query answers: the series loop runs, then the next query is
\* awaited or the call returns.
PassResume(t) ==
    /\ passes[t].pc = "await"
    /\ \E body \in BodiesOf(PassSeriesDomain, MaxPassSeries - SeriesGiven(Tasks)) :
          LET p == passes[t]
              ss == ResultList(body)
              f == frames[Frame(t)]
              resp == Append(p.responses, [ok |-> TRUE, series |-> ss])
          IN  IF p.op = "container"
              THEN LET r == ContainerLoop(f.containers_map, queries[p.qi].metric_type, ss) IN
                   IF r.exc # None
                   THEN /\ passes' = [passes EXCEPT ![t] = Ended(p, resp, Raised(r.exc))]
                        /\ frames' = [frames EXCEPT ![Frame(t)] = NoLocals]
                   ELSE IF p.qi < Len(queries)
                   THEN /\ passes' = [passes EXCEPT ![t] = NextAwait(p, resp)]
                        /\ frames' = [frames EXCEPT ![Frame(t)].containers_map = r.map]
                   ELSE /\ passes' = [passes EXCEPT ![t] =
                                         Ended(p, resp, Returned(Slice(DictValues(r.map), DefaultLimit)))]
                        /\ frames' = [frames EXCEPT ![Frame(t)] = NoLocals]
              ELSE IF p.qi = 1
              THEN \* nodes = [] is assigned after the platform query's answer
                   LET r == PlatformLoop(<<>>, ss) IN
                   IF r.exc # None
                   THEN /\ passes' = [passes EXCEPT ![t] = Ended(p, resp, Raised(r.exc))]
                        /\ frames' = [frames EXCEPT ![Frame(t)] = NoLocals]
                   ELSE /\ passes' = [passes EXCEPT ![t] = NextAwait(p, resp)]
                        /\ frames' = [frames EXCEPT ![Frame(t)].nodes = r.nodes,
                                                    ![Frame(t)].node_map = BuildNodeMap(r.nodes)]
              ELSE LET ns == ComponentLoop(f.nodes, f.node_map, node_queries[p.qi].metric_type, ss) IN
                   IF p.qi < Len(node_queries)
                   THEN /\ passes' = [passes EXCEPT ![t] = NextAwait(p, resp)]
                        /\ frames' = [frames EXCEPT ![Frame(t)].nodes = ns]
                   ELSE /\ passes' = [passes EXCEPT ![t] = Ended(p, resp, Returned(ns))]
                        /\ frames' = [frames EXCEPT ![Frame(t)] = NoLocals]
    /\ ensure_session
    /\ UNCHANGED <<closed, pc, qi, si, responses, limit, containers_map, nodes, node_map, ret>>
    /\ UNCHANGED <<utilVars, extVars, coros, unclosed>>

\* The awaited query raises: a container pass and the platform query re-raise,
\* a component query is skipped.
PassQueryRaise(t) ==
    /\ passes[t].pc = "await"
    /\ \E e \in Exceptions :
          LET p == passes[t]
              resp == Append(p.responses, [ok |-> FALSE, series |-> <<>>])
          IN  IF p.op = "container" \/ p.qi = 1
              THEN /\ passes' = [passes EXCEPT ![t] = Ended(p, resp, Raised(e))]
                   /\ frames' = [frames EXCEPT ![Frame(t)] = NoLocals]
              ELSE IF p.qi < Len(node_queries)
              THEN /\ passes' = [passes EXCEPT ![t] = NextAwait(p, resp)]
                   /\ UNCHANGED frames
              ELSE /\ passes' = [passes EXCEPT ![t] = Ended(p, resp, Returned(frames[Frame(t)].nodes))]
                   /\ frames' = [frames EXCEPT ![Frame(t)] = NoLocals]
    /\ ensure_session
    /\ UNCHANGED <<closed, pc, qi, si, responses, limit, containers_map, nodes, node_map, ret>>
    /\ UNCHANGED <<utilVars, extVars, coros, unclosed>>

\* The task is cancelled at its await: CancelledError is no Exception, no
\* handler of the pass catches it, and the call's locals go with its frame.
PassCancel(t) ==
    /\ passes[t].pc = "await"
    /\ passes' = [passes EXCEPT ![t] = Ended(passes[t], passes[t].responses, Raised("CancelledError"))]
    /\ frames' = [frames EXCEPT ![Frame(t)] = NoLocals]
    /\ UNCHANGED <<session, created, closed, pc, qi, si, responses, limit, containers_map, nodes, node_map, ret>>
    /\ UNCHANGED <<utilVars, extVars, coros, unclosed>>

PassCalls == \E t \in Tasks : PassCall(t)

PassResumes == \E t \in Tasks : PassResume(t)

PassQueryRaises == \E t \in Tasks : PassQueryRaise(t)

PassCancels == \E t \in Tasks : PassCancel(t)

NextPasses ==
    \/ PassCalls
    \/ PassResumes
    \/ PassQueryRaises
    \/ PassCancels

SpecPasses == Init /\ [][NextPasses]_vars

-----------------------------------------------------------------------------
(* health_check, the query operations and close called concurrently on one   *)
(* client.  A coroutine runs without interruption up to its next await:      *)
(* session.get(...) in health_check and in _prometheus_query, and            *)
(* session.close() in close.  _ensure_session has no await of its own.       *)

\* A session may still be constructed, or none is needed.
CanEnsure == session # None \/ created < MaxSessions

\* await self._ensure_session(), with the record of the sessions constructed
EnsureSessionRecorded ==
    /\ CanEnsure
    /\ ensure_session
    /\ unclosed' = IF session' # session THEN unclosed \cup {created'} ELSE unclosed

\* health_check up to its first await: _ensure_session(), self.session.get(health_url)
SessHealthCall(c) ==
    /\ coros[c] = "idle"
    /\ EnsureSessionRecorded
    /\ coros' = [coros EXCEPT ![c] = "h_get"]
    /\ UNCHANGED <<closed, pc, ret, utilVars>>
    /\ UNCHANGED <<qi, si, responses, limit, containers_map, nodes, node_map, extVars, passes, frames>>

\* The liveness response arrives; health_check enters _prometheus_query:
\* _ensure_session(), self.session.get(query_url)
SessHealthGetOk(c) ==
    /\ coros[c] = "h_get"
    /\ EnsureSessionRecorded
    /\ coros' = [coros EXCEPT ![c] = "h_query"]
    /\ UNCHANGED <<closed, pc, ret, utilVars>>
    /\ UNCHANGED <<qi, si, responses, limit, containers_map, nodes, node_map, extVars, passes, frames>>

\* The liveness request raises; health_check returns its error report.
SessHealthGetRaise(c) ==
    /\ coros[c] = "h_get"
    /\ coros' = [coros EXCEPT ![c] = "idle"]
    /\ UNCHANGED <<session, created, closed, unclosed, pc, ret, utilVars>>
    /\ UNCHANGED <<qi, si, responses, limit, containers_map, nodes, node_map, extVars, passes, frames>>

\* A query operation reaches _prometheus_query: _ensure_session(), self.session.get(query_url)
SessQueryCall(c) ==
    /\ coros[c] = "idle"
    /\ EnsureSessionRecorded
    /\ coros' = [coros EXCEPT ![c] = "q_get"]
    /\ UNCHANGED <<closed, pc, ret, utilVars>>
    /\ UNCHANGED <<qi, si, responses, limit, containers_map, nodes, node_map, extVars, passes, frames>>

\* The query's request ends, with a body or an exception.
SessQueryEnd(c) ==
    /\ coros[c] \in {"h_query", "q_get"}
    /\ coros' = [coros EXCEPT ![c] = "idle"]
    /\ UNCHANGED <<session, created, closed, unclosed, pc, ret, utilVars>>
    /\ UNCHANGED <<qi, si, responses, limit, containers_map, nodes, node_map, extVars, passes, frames>>

\* close(): if self.session: await self.session.close() -- the session held
\* now is closed and the coroutine waits for the close to finish.
SessCloseBegin(c) ==
    /\ coros[c] = "idle"
    /\ session # None
    /\ unclosed' = unclosed \ {created}
    /\ coros' = [coros EXCEPT ![c] = "closing"]
    /\ UNCHANGED <<session, created, closed, pc, ret, utilVars>>
    /\ UNCHANGED <<qi, si, responses, limit, containers_map, nodes, node_map, extVars, passes, frames>>

\* close() resumes: self.session = None, whatever self.session is by now.
SessCloseEnd(c) ==
    /\ coros[c] = "closing"
    /\ session' = None
    /\ closed' = closed + 1
    /\ coros' = [coros EXCEPT ![c] = "idle"]
    /\ UNCHANGED <<created, unclosed, pc, ret, utilVars>>
    /\ UNCHANGED <<qi, si, responses, limit, containers_map, nodes, node_map, extVars, passes, frames>>

SessHealthCalls == \E c \in Coros : SessHealthCall(c)

SessHealthGetOks == \E c \in Coros : SessHealthGetOk(c)

SessHealthGetRaises == \E c \in Coros : SessHealthGetRaise(c)

SessQueryCalls == \E c \in Coros : SessQueryCall(c)

SessQueryEnds == \E c \in Coros : SessQueryEnd(c)

SessCloseBegins == \E c \in Coros : SessCloseBegin(c)

SessCloseEnds == \E c \in Coros : SessCloseEnd(c)

NextSession ==
    \/ SessHealthCalls
    \/ SessHealthGetOks
    \/ SessHealthGetRaises
    \/ SessQueryCalls
    \/ SessQueryEnds
    \/ SessCloseBegins
    \/ SessCloseEnds

SpecSession == Init /\ [][NextSession]_vars

-----------------------------------------------------------------------------
(* What a pass was given: the series of the responses so far, in query order *)
(* and then series order, each with the index of its query.                  *)

Tagged(i) ==
    [j \in 1..Len(responses[i].series) |-> [q |-> i, series |-> responses[i].series[j]]]

RECURSIVE FlatUpTo(_)
FlatUpTo(n) == IF n = 0 THEN <<>> ELSE FlatUpTo(n - 1) \o Tagged(n)

\* The series that carry a sample, the only ones the loops look at.
Sampled == SelectSeq(FlatUpTo(Len(responses)), LAMBDA e : HasSample(e.series))

FailedQueries == {i \in 1..Len(responses) : ~responses[i].ok}

RecordKey(r) == <<r.container_name, r.pod_name, r.namespace>>

Max(S) == CHOOSE x \in S : \A y \in S : y <= x

Min(S) == CHOOSE x \in S : \A y \in S : x <= y

ContainerReturned == pc = "c_done" /\ ret.kind = "return"

NodeReturned == pc = "n_done" /\ ret.kind = "return"

-----------------------------------------------------------------------------
(* Claims on the container-scope pass (SpecContainer). *)

\* C1: in a container-scope pass the failure of a single metric-type query
\* does not abort the pass: when exactly one query has failed, and it is one
\* of the component queries (cpu, gpu, memory, other), the pass does not raise.
C1_SingleFailureTolerated ==
    (pc = "c_done" /\ \E i \in 2..Len(queries) : FailedQueries = {i}) => ret.kind = "return"

\* The fields of a container record.
ContainerFields ==
    {"container_name", "pod_name", "namespace", "node_name", "power_joules", "timestamp",
     "labels", "total_power_joules", "cpu_power_joules", "gpu_power_joules",
     "memory_power_joules", "other_power_joules"}

\* One step leaves every entry of containers_map in place and changes, if
\* anything, only the component of the current query's metric type in the
\* entry of the current series' key.
MergeFrame ==
    \A i \in 1..Len(containers_map) :
        /\ i <= Len(containers_map')
        /\ containers_map'[i].key = containers_map[i].key
        /\ \A f \in ContainerFields :
              containers_map'[i].value[f] # containers_map[i].value[f] =>
                  /\ pc = "c_loop" /\ si <= Len(CurrentResult)
                  /\ f = AttrName(queries[qi].metric_type)
                  /\ containers_map[i].key = ContainerKey(CurrentResult[si].metric)

\* A step that merges a series sets the component of its metric type, in the
\* entry of its key, to the series' value.
MergeSets ==
    (pc = "c_loop" /\ si' = si + 1 /\ HasSample(CurrentResult[si])) =>
        \E i \in 1..Len(containers_map') :
            /\ containers_map'[i].key = ContainerKey(CurrentResult[si].metric)
            /\ containers_map'[i].value[AttrName(queries[qi].metric_type)]
                   = float(CurrentResult[si].value[2])

\* C3: monotonic merge.  Merging a series of metric type T for a key that
\* already has a record changes only component T of that record: the other
\* components, the identity fields, node_name, timestamp and labels of the
\* record and every other record stay as they were, and component T takes
\* the merged value.
C3_MonotonicMerge == [][MergeFrame /\ MergeSets]_vars

\* A record that was created by one query and merged into by a later one:
\* two of its components are set, by series that differ in their labels.
C3_Witness ==
    /\ pc = "c_loop"
    /\ \E i \in 1..Len(containers_map) :
          /\ containers_map[i].value.total_power_joules = 3
          /\ containers_map[i].value.cpu_power_joules = 4
          /\ containers_map[i].value.labels = MetricA1
          /\ \E e \in {Sampled[k] : k \in 1..Len(Sampled)} :
                e.q = 2 /\ e.series.metric = MetricA2
          /\ Len(containers_map) = 2

-----------------------------------------------------------------------------
\* The values the total query returned for a key, in series order.
DirectTotals(key) ==
    SelectSeq(Sampled, LAMBDA e : e.q = 1 /\ ContainerKey(e.series.metric) = key)

ComponentSum(r) ==
    r.cpu_power_joules + r.gpu_power_joules + r.memory_power_joules + r.other_power_joules

\* C4: total-power policy.  In the records a container-scope pass returns,
\* the total is the value of the direct total series when one was returned
\* for the record's key, and the sum of the cpu, gpu, memory and other
\* components when none was.
C4_TotalPowerPolicy ==
    ContainerReturned =>
        \A i \in 1..Len(ret.value) :
            LET r == ret.value[i]
                direct == DirectTotals(RecordKey(r))
            IN  IF Len(direct) > 0
                THEN r.total_power_joules = float(direct[Len(direct)].series.value[2])
                ELSE r.total_power_joules = ComponentSum(r)

\* The half of C4 the code does implement: a direct total is never replaced
\* by, or added to, the component sum.
C4_DirectTotalKept ==
    ContainerReturned =>
        \A i \in 1..Len(ret.value) :
            LET direct == DirectTotals(RecordKey(ret.value[i]))
            IN  Len(direct) > 0 =>
                    ret.value[i].total_power_joules = float(direct[Len(direct)].series.value[2])

-----------------------------------------------------------------------------
NodeRecordKey(r) == r.node_name

Distinct(keys) == \A i, j \in 1..Len(keys) : keys[i] = keys[j] => i = j

ReturnedContainerKeys == [i \in 1..Len(ret.value) |-> RecordKey(ret.value[i])]

ReturnedNodeKeys == [i \in 1..Len(ret.value) |-> NodeRecordKey(ret.value[i])]

\* The container half of C5: no two returned records share a key.
C5_ContainerKeysUnique == ContainerReturned => Distinct(ReturnedContainerKeys)

\* C5: an EntityKey identifies exactly one record.  A container-scope pass
\* returns no two records with the same (container_name, pod_name,
\* namespace), and a node-scope pass returns no two records with the same
\* instance.
C5_EntityKeyUnique ==
    /\ ContainerReturned => Distinct(ReturnedContainerKeys)
    /\ NodeReturned => Distinct(ReturnedNodeKeys)

-----------------------------------------------------------------------------
\* The timestamps of the samples merged into the container record of a key.
ContainerStamps(key) ==
    {fromtimestamp(Sampled[k].series.value[1]) :
        k \in {k \in 1..Len(Sampled) : ContainerKey(Sampled[k].series.metric) = key}}

\* The timestamps of the samples that gave a value to node record i: its own
\* platform sample, and the component samples merged into it.
NodeStamps(i) ==
    {ret.value[i].timestamp} \cup
    {fromtimestamp(Sampled[k].series.value[1]) :
        k \in {k \in 1..Len(Sampled) :
                 /\ Sampled[k].q > 1
                 /\ NodeKey(Sampled[k].series.metric) = ret.value[i].node_name
                 /\ node_map[ret.value[i].node_name] = i
                 /\ ~FloatRaises(Sampled[k].series.value[2])}}

\* C6: at the end of a pass every record's timestamp is the most recent
\* timestamp among the samples that contributed a value to it, those merged
\* by later queries included.
C6_TimestampMostRecent ==
    /\ ContainerReturned =>
          \A i \in 1..Len(ret.value) :
              ret.value[i].timestamp = Max(ContainerStamps(RecordKey(ret.value[i])))
    /\ NodeReturned =>
          \A i \in 1..Len(ret.value) :
              ret.value[i].timestamp = Max(NodeStamps(i))

-----------------------------------------------------------------------------
\* Where a key first appears among the sampled series of the pass.
FirstContainer(key) ==
    Min({k \in 1..Len(Sampled) : ContainerKey(Sampled[k].series.metric) = key})

FirstNode(key) ==
    Min({k \in 1..Len(Sampled) : NodeKey(Sampled[k].series.metric) = key})

Ordered(idx) == \A i, j \in 1..Len(idx) : i < j => idx[i] <= idx[j]

\* The container half of C10: the returned records are the first `limit`
\* keys in their order of first appearance.
C10_ContainerOrder ==
    ContainerReturned =>
        /\ Distinct(ReturnedContainerKeys)
        /\ Ordered([i \in 1..Len(ret.value) |-> FirstContainer(ReturnedContainerKeys[i])])
        /\ \A k \in 1..Len(Sampled) :
              LET key == ContainerKey(Sampled[k].series.metric)
              IN  \/ \E i \in 1..Len(ret.value) : ReturnedContainerKeys[i] = key
                  \/ Len(ret.value) = limit

\* C10: the records a pass returns are in the order in which their keys
\* first appeared across the query results of the pass.
C10_FirstAppearanceOrder ==
    /\ ContainerReturned =>
          Ordered([i \in 1..Len(ret.value) |-> FirstContainer(ReturnedContainerKeys[i])])
    /\ NodeReturned =>
          Ordered([i \in 1..Len(ret.value) |-> FirstNode(ReturnedNodeKeys[i])])

-----------------------------------------------------------------------------
(* Claims on the node-scope pass (SpecNode). *)

\* The platform series the loop builds records from.
PlatformSampled == SelectSeq(responses[1].series, HasSample)

\* The platform query failed, or a value of its result cannot be converted.
PlatformFailed ==
    \/ ~responses[1].ok
    \/ \E k \in 1..Len(PlatformSampled) : FloatRaises(PlatformSampled[k].value[2])

\* Whether the loop over a component's series stops at series s: it has a
\* sample for a known node and float() raises on it.
Stops(s) ==
    HasSample(s) /\ NodeKey(s.metric) \in DOMAIN node_map /\ FloatRaises(s.value[2])

\* The series of the result of query q the loop gets to merge into a record of
\* the given name, in order.
RECURSIVE MergedFor(_, _)
MergedFor(ss, name) ==
    IF ss = <<>> \/ Stops(Head(ss)) THEN <<>>
    ELSE (IF HasSample(Head(ss)) /\ NodeKey(Head(ss).metric) = name
          THEN <<Head(ss)>> ELSE <<>>) \o MergedFor(Tail(ss), name)

\* The value of the component of query q in returned record i: the last value
\* a successful query q has for the record's instance, in the record node_map
\* holds for that instance; what the record was constructed with otherwise.
ExpectedComponent(q, i) ==
    LET r == ret.value[i]
        merged == MergedFor(responses[q].series, r.node_name)
    IN  IF responses[q].ok /\ Len(merged) > 0 /\ node_map[r.node_name] = i
        THEN float(merged[Len(merged)].value[2])
        ELSE NodeShell(PlatformSampled[i])[AttrName(node_queries[q].metric_type)]

\* C2: in a node-scope pass a failure of the platform query propagates to the
\* caller and no records are returned; a failure of any of the component
\* queries does not: the pass returns one record per platform series, as
\* built from it, with the components of the successful queries merged and
\* those of the failed queries as the record was constructed.
C2_NodeFailurePolicy ==
    pc = "n_done" =>
        /\ PlatformFailed => ret.kind = "raise" /\ ret.value = <<>>
        /\ ~PlatformFailed =>
              /\ ret.kind = "return"
              /\ Len(responses) = Len(node_queries)
              /\ Len(ret.value) = Len(PlatformSampled)
              /\ \A i \in 1..Len(ret.value) :
                    /\ \A f \in {"node_name", "platform_power_joules", "timestamp", "labels"} :
                          ret.value[i][f] = NodeShell(PlatformSampled[i])[f]
                    /\ \A q \in 2..Len(node_queries) :
                          ret.value[i][AttrName(node_queries[q].metric_type)]
                              = ExpectedComponent(q, i)

\* A pass that returned two records although the cpu query had failed, with
\* the dram component of a record set by the successful dram query.
C2_Witness ==
    /\ NodeReturned
    /\ Len(ret.value) = 2
    /\ ~responses[2].ok
    /\ responses[3].ok
    /\ \E i \in 1..Len(ret.value) :
          ret.value[i].dram_power_joules = 4 /\ ret.value[i].cpu_power_joules = ComponentDefault

-----------------------------------------------------------------------------
(* Claims on the duration parser (SpecParse). *)

Suffixed(str) == endswith(str, "m") \/ endswith(str, "h") \/ endswith(str, "d")

\* C7: the duration parser is total.  A token made of a numeric prefix and a
\* suffix m, h or d yields that many minutes, hours or days; every other
\* token, a recognized suffix with a missing or non-numeric prefix included,
\* yields the default of five minutes; no token makes the parser raise.
C7_ParserTotal ==
    pc = "p_done" =>
        /\ ret.kind = "return"
        /\ (Suffixed(time_range) /\ IsNumeral(DropLast(time_range))) =>
              ret.value = int(DropLast(time_range))
                            * (CASE endswith(time_range, "m") -> 60
                                 [] endswith(time_range, "h") -> 3600
                                 [] endswith(time_range, "d") -> 86400)
        /\ ~(Suffixed(time_range) /\ IsNumeral(DropLast(time_range))) =>
              ret.value = 60 * DefaultMinutes

\* What the parser does do: tokens without a recognized suffix get the
\* default, well-formed tokens their duration.
C7_ParserWhereDefined ==
    (pc = "p_done" /\ (~Suffixed(time_range) \/ IsNumeral(DropLast(time_range)))) =>
        /\ ret.kind = "return"
        /\ ~Suffixed(time_range) => ret.value = 60 * DefaultMinutes
        /\ time_range = <<"3", "0", "m">> => ret.value = 1800
        /\ time_range = <<"2", "h">> => ret.value = 7200
        /\ time_range = <<"3", "d">> => ret.value = 259200

-----------------------------------------------------------------------------
(* Claims on the health probe (SpecHealth). *)

\* A call of health_check has completed and ret holds what it gave.
HealthCompleted == pc = "idle" /\ live.kind # "none"

LivenessSucceeded == live.kind = "status" /\ live.status = 200

DataPresent == data.kind = "body" /\ Len(ResultList(data.body)) > 0

\* C8: the health probe never raises and always returns a structured report,
\* whatever the liveness request and the data-presence query do; its status
\* is healthy exactly when the liveness check succeeded and the query
\* returned at least one series, and unhealthy otherwise.
C8_HealthReport ==
    /\ ret.kind # "raise"
    /\ HealthCompleted =>
          /\ ret.kind = "return"
          /\ {"prometheus", "kepler", "status"} \subseteq DOMAIN ret.value
          /\ ret.value.prometheus \in BOOLEAN /\ ret.value.kepler \in BOOLEAN
          /\ ret.value.status \in {"healthy", "unhealthy"}
          /\ ret.value.status = "healthy" <=> (LivenessSucceeded /\ DataPresent)

\* A completed probe whose liveness check succeeded and whose data query
\* raised: the report is unhealthy and names the cause.
C8_Witness ==
    /\ HealthCompleted
    /\ LivenessSucceeded
    /\ data.kind = "raise"
    /\ ret.value.status = "unhealthy"
    /\ ret.value.error = "TimeoutError"

\* C9: the two checks are independent.  In the report the prometheus field
\* tells what the liveness request did and the kepler field what the
\* data-presence query did, also when the other check failed or raised.
C9_ChecksIndependent ==
    HealthCompleted =>
        /\ ret.value.prometheus = LivenessSucceeded
        /\ data.kind # "none" => ret.value.kepler = DataPresent

-----------------------------------------------------------------------------
(* Claims on the windowed read (SpecWindow). *)

\* The series of the read's response that carry samples, in the response's order.
WindowSampled ==
    IF responses = <<>> THEN <<>>
    ELSE SelectSeq(responses[1].series, LAMBDA s : Get(s, "values", <<>>) # <<>>)

WindowReturned == pc = "w_done" /\ ret.kind = "return"

\* C11: get_container_power_metrics returns one record per series of the
\* ranged result that has samples, in the result's order, and none for a
\* series without samples; the record's power value and timestamp are those of
\* the series' last sample, whatever the earlier samples are.
C11_LastSampleRead ==
    WindowReturned =>
        /\ Len(ret.value) = Len(WindowSampled)
        /\ \A k \in 1..Len(ret.value) :
              LET samples == WindowSampled[k].values IN
              /\ ret.value[k].power_joules = FloatTable[samples[Len(samples)][2]]
              /\ ret.value[k].timestamp = samples[Len(samples)][1]
              /\ \A i \in 1..Len(samples) : samples[i][1] <= ret.value[k].timestamp
              /\ ret.value[k].labels = WindowSampled[k].metric

\* A read of two series where one has no samples and the other has two samples
\* of different values: one record, with the later sample's value.
C11_Witness ==
    /\ WindowReturned
    /\ Len(responses[1].series) = 2
    /\ Len(ret.value) = 1
    /\ \E s \in {WindowSampled[1]} :
          /\ Len(s.values) = 2
          /\ s.values[1][2] = "4"
          /\ s.values[2][2] = "3"
    /\ ret.value[1].power_joules = 3
    /\ ret.value[1].timestamp = 2

-----------------------------------------------------------------------------
(* Claims on the cost endpoint (SpecCost). *)

CostReturned == pc = "cost_done" /\ ret.kind = "return"

\* C12: for every record the calculator is given, the energy cost amount and
\* the carbon mass estimate are never negative, and both are exactly 0 when
\* the record's energy is negative.
C12_CostClamp ==
    CostReturned =>
        /\ Len(cost_data.perEntity) = Len(containers)
        /\ \A k \in 1..Len(containers) :
              LET cost == cost_data.perEntity[k].cost IN
              /\ cost.energy_cost_amount.den > 0 /\ cost.energy_cost_amount.num >= 0
              /\ cost.carbon_mass_estimate.den > 0 /\ cost.carbon_mass_estimate.num >= 0
              /\ containers[k].power_joules < 0 =>
                    cost.energy_cost_amount.num = 0 /\ cost.carbon_mass_estimate.num = 0
        /\ cost_data.total.energy_cost_amount.num >= 0
        /\ cost_data.total.carbon_mass_estimate.num >= 0

\* A cost request over two records, the first of negative energy and the
\* second of positive energy: zero cost for the first, a positive one for the
\* second.
C12_Witness ==
    /\ CostReturned
    /\ Len(containers) = 2
    /\ containers[1].power_joules < 0
    /\ containers[2].power_joules > 0
    /\ cost_data.perEntity[1].cost.energy_cost_amount.num = 0
    /\ cost_data.perEntity[1].cost.carbon_mass_estimate.num = 0
    /\ cost_data.perEntity[2].cost.energy_cost_amount.num > 0
    /\ RatEq(cost_data.total.carbon_mass_estimate, cost_data.perEntity[2].cost.carbon_mass_estimate)

-----------------------------------------------------------------------------
(* Claims on concurrent passes (SpecPasses). *)

\* What a container pass running alone returns on the answers resps: the dict
\* after the first k answers, then its values up to the limit.
RECURSIVE AloneMap(_, _)
AloneMap(resps, k) ==
    IF k = 0 THEN <<>>
    ELSE ContainerLoop(AloneMap(resps, k - 1), queries[k].metric_type, resps[k].series).map

\* What a node pass running alone has in nodes after the first k answers.
RECURSIVE AloneNodes(_, _)
AloneNodes(resps, k) ==
    IF k = 1 THEN PlatformLoop(<<>>, resps[1].series).nodes
    ELSE ComponentLoop(AloneNodes(resps, k - 1), BuildNodeMap(AloneNodes(resps, 1)),
                       node_queries[k].metric_type, resps[k].series)

AloneResult(p) ==
    IF p.op = "container"
    THEN Slice(DictValues(AloneMap(p.responses, Len(queries))), DefaultLimit)
    ELSE AloneNodes(p.responses, Len(node_queries))

PassReturned(p) == p.pc = "done" /\ p.ret.kind = "return"

\* C13: passes running concurrently on one client are isolated.  Every step,
\* a query's answer, a failure or a cancellation, changes the position, the
\* outcome and the locals of one pass only, and a pass that has returned has
\* returned what it returns running alone on the answers it was given.
C13_PassesIsolated ==
    [][ /\ \A t \in Tasks :
              PassReturned(passes'[t]) => passes'[t].ret.value = AloneResult(passes'[t])
        /\ \A t, u \in Tasks :
              (t # u /\ passes'[t] # passes[t]) =>
                  passes'[u] = passes[u] /\ frames'[u] = frames[u] ]_vars

\* Two container passes are in flight at once, past their first query, each
\* holding a record of the same container merged from its own answers.
C13_Witness ==
    /\ passes["t1"].pc = "await" /\ passes["t1"].op = "container" /\ passes["t1"].qi > 1
    /\ passes["t2"].pc = "await" /\ passes["t2"].op = "container" /\ passes["t2"].qi > 1
    /\ Len(frames["t1"].containers_map) = 1
    /\ Len(frames["t2"].containers_map) = 1
    /\ frames["t1"].containers_map[1].key = frames["t2"].containers_map[1].key
    /\ frames["t1"].containers_map[1].value # frames["t2"].containers_map[1].value

-----------------------------------------------------------------------------
(* Claims on concurrent use of the session (SpecSession). *)

\* The session the client holds, by its number.
Held == IF session = None THEN {} ELSE {created}

\* The sessions ever created are at most one more than the completed closes.
C14_SessionCount == created <= 1 + closed

\* C14: under any interleaving of coroutines calling health_check, the query
\* operations and close on one client, the sessions ever created are at most
\* one more than the completed close calls, and every session that was
\* created and not closed is the one the client holds: none is dropped
\* without being closed.
C14_SingleSession ==
    /\ created <= 1 + closed
    /\ unclosed \subseteq Held

====
